---- MODULE Spec2Model ----
(***************************************************************************)
(* Model of src/fix.py: the report normalizers of StaticAnalyzer, the      *)
(* grouping and patching of AIHealer.fix_file, and the file loop of main.  *)
(* Text is a sequence of one-character strings; a file on disk is one such *)
(* sequence, split into lines by readlines and joined again by writelines. *)
(***************************************************************************)
EXTENDS Integers, Sequences, FiniteSets, TLC

\* ------------------------------------------------------------- bounds
MaxFileLen == 4      \* characters of the file of the one-file specifications
MaxTreeLen == 2      \* characters of each file of the several-file specification
MaxIssues == 2       \* findings in all_issues
MaxFixLen == 1       \* characters of a proposed fixed_line
MaxGroupLen == 4     \* findings handed to the grouping specification
MaxGroupLine == 4    \* largest line number there, besides the example's lines
MaxRecords == 1      \* records of one raw report
MaxFieldLen == 2     \* characters of a raw line field

\* ------------------------------------------------------------- text
FileChars == {" ", "\n", "a"}
FixChars == FileChars \cup {"b"}
Whitespace == {" ", "\n"}

\* all texts over the characters cs of length at most n
TextsUpTo(cs, n) == UNION {[1..k -> cs] : k \in 0..n}

RECURSIVE lstrip(_)
lstrip(s) ==
  IF s = <<>> THEN <<>>
  ELSE IF Head(s) \in Whitespace THEN lstrip(Tail(s)) ELSE s

RECURSIVE rstrip(_)
rstrip(s) ==
  IF s = <<>> THEN <<>>
  ELSE IF s[Len(s)] \in Whitespace THEN rstrip(SubSeq(s, 1, Len(s) - 1)) ELSE s

strip(s) == lstrip(rstrip(s))

\* f.readlines(): every line keeps its terminator; the last may have none
RECURSIVE SplitLines(_, _, _)
SplitLines(s, cur, acc) ==
  IF s = <<>> THEN (IF cur = <<>> THEN acc ELSE Append(acc, cur))
  ELSE IF Head(s) = "\n" THEN SplitLines(Tail(s), <<>>, Append(acc, Append(cur, "\n")))
  ELSE SplitLines(Tail(s), Append(cur, Head(s)), acc)

readlines(data) == SplitLines(data, <<>>, <<>>)

\* f.writelines(lines): the strings one after another, nothing added
RECURSIVE writelines(_)
writelines(ls) == IF ls = <<>> THEN <<>> ELSE Head(ls) \o writelines(Tail(ls))

\* AIHealer._get_indentation
_get_indentation(line) ==
  LET stripped == lstrip(line)
  IN IF stripped = <<>> \/ stripped = <<"\n">> THEN line
     ELSE SubSeq(line, 1, Len(line) - Len(stripped))

\* ------------------------------------------------------------- paths and files
Paths == {[stem |-> "foo", suffix |-> ".c"], [stem |-> "foo", suffix |-> ".h"]}
OnePath == [stem |-> "foo", suffix |-> ".c"]

\* Path(file_path).with_suffix('.bak')
with_suffix(p, suffix) == [stem |-> p.stem, suffix |-> suffix]
backup_path(p) == with_suffix(p, ".bak")

AllPaths == Paths \cup {backup_path(p) : p \in Paths}

NoFile == [exists |-> FALSE, data |-> <<>>]
File(data) == [exists |-> TRUE, data |-> data]

\* ------------------------------------------------------------- findings
\* Vulnerability: id stands for the tool, message and severity of the record
Vulnerability(p, n, i) == [file_path |-> p, line |-> n, id |-> i]

\* lists of k findings over the paths ps and the lines ls; the id of a finding
\* is its place in the list
RECURSIVE IssueListsOfLen(_, _, _)
IssueListsOfLen(ps, ls, k) ==
  IF k = 0 THEN {<<>>}
  ELSE {Append(vs, Vulnerability(pl[1], pl[2], k)) :
          vs \in IssueListsOfLen(ps, ls, k - 1), pl \in ps \X ls}

\* sorted(vulnerabilities, key=lambda x: x.line): stable, ties keep their order
RECURSIVE InsertByLine(_, _)
InsertByLine(v, s) ==
  IF s = <<>> THEN <<v>>
  ELSE IF s[Len(s)].line <= v.line THEN Append(s, v)
  ELSE Append(InsertByLine(v, SubSeq(s, 1, Len(s) - 1)), s[Len(s)])

RECURSIVE SortedFrom(_, _)
SortedFrom(vs, acc) ==
  IF vs = <<>> THEN acc ELSE SortedFrom(Tail(vs), InsertByLine(Head(vs), acc))

sorted(vs) == SortedFrom(vs, <<>>)

GroupGap == 3

\* the loop measuring the distance from the first member of the group
RECURSIVE GroupLoopFromFirst(_, _, _)
GroupLoopFromFirst(rest, groups, current_group) ==
  IF rest = <<>> THEN
    (IF current_group # <<>> THEN Append(groups, current_group) ELSE groups)
  ELSE
    LET vuln == Head(rest)
    IN IF vuln.line - current_group[1].line <= GroupGap
       THEN GroupLoopFromFirst(Tail(rest), groups, Append(current_group, vuln))
       ELSE GroupLoopFromFirst(Tail(rest), Append(groups, current_group), <<vuln>>)

\* the loop of _group_vulnerabilities over sorted_vulns[1:]
RECURSIVE GroupLoop(_, _, _)
GroupLoop(rest, groups, current_group) ==
  IF rest = <<>> THEN
    (IF current_group # <<>> THEN Append(groups, current_group) ELSE groups)
  ELSE
    LET vuln == Head(rest)
    IN IF vuln.line - current_group[Len(current_group)].line <= GroupGap
       THEN GroupLoop(Tail(rest), groups, Append(current_group, vuln))
       ELSE GroupLoop(Tail(rest), Append(groups, current_group), <<vuln>>)

\* AIHealer._group_vulnerabilities
_group_vulnerabilities(vulnerabilities) ==
  IF vulnerabilities = <<>> THEN <<>>
  ELSE LET sorted_vulns == sorted(vulnerabilities)
       IN GroupLoop(Tail(sorted_vulns), <<>>, <<Head(sorted_vulns)>>)

\* ------------------------------------------------------------- the fix service
\* A decoded JSON value, by what the code asks of it: its type, whether it is
\* truthy, whether 'fixed_line' is in it, whether its fixed_line is a string.
JValue(t, truthy, hasfl, flstr, s) ==
  [t |-> t, truthy |-> truthy, hasfl |-> hasfl, flstr |-> flstr, s |-> s]

FixStrings == TextsUpTo(FixChars, MaxFixLen)

\* Python's None, also what json.loads gives for null
None == JValue("None", FALSE, FALSE, FALSE, <<>>)

JValues ==
  {JValue("dict", FALSE, FALSE, FALSE, <<>>),       \* {}
   JValue("dict", TRUE, FALSE, FALSE, <<>>),        \* {"reason": "r"}
   JValue("dict", TRUE, TRUE, FALSE, <<>>),         \* {"fixed_line": null}
   JValue("list", FALSE, FALSE, FALSE, <<>>),       \* []
   JValue("list", TRUE, TRUE, FALSE, <<>>),         \* ["fixed_line"]
   JValue("num", FALSE, FALSE, FALSE, <<>>),        \* 0
   JValue("num", TRUE, FALSE, FALSE, <<>>),         \* 5
   None}                                            \* null
  \cup {JValue("dict", TRUE, TRUE, TRUE, s) : s \in FixStrings}

\* what the HTTP exchange with the fix service gives
ServiceFailures ==
  {"http_error", "transport_exception", "envelope_not_json", "response_not_json"}

Reply(kind, value) == [kind |-> kind, value |-> value]

Replies ==
  {Reply(k, None) : k \in ServiceFailures} \cup {Reply("ok", v) : v \in JValues}

Unasked == Reply("unasked", None)

\* AIHealer._query_llm_for_fix: every exception of the exchange gives None
_query_llm_for_fix(reply) ==
  IF reply.kind \in ServiceFailures THEN None ELSE reply.value

\* 'fixed_line' in fix_data raises TypeError for a number
InRaises(v) == v.t = "num"
\* fix_data['fixed_line'] raises TypeError for a list
GetItemRaises(v) == v.t = "list"
\* fix_data['fixed_line'].rstrip() raises AttributeError unless it is a string
RstripRaises(v) == ~v.flstr

Exceptions == {"ValueError", "TypeError", "AttributeError", "SameFileError"}

\* lines 129-143 for one unit: the exception raised, or the line to store, or
\* no change
Outcome(kind, line) == [kind |-> kind, line |-> line]

ApplyFix(original_line, fix_data) ==
  IF ~fix_data.truthy THEN Outcome("no_fix", original_line)
  ELSE IF InRaises(fix_data) THEN Outcome("TypeError", original_line)
  ELSE IF ~fix_data.hasfl THEN Outcome("no_fix", original_line)
  ELSE IF GetItemRaises(fix_data) THEN Outcome("TypeError", original_line)
  ELSE IF RstripRaises(fix_data) THEN Outcome("AttributeError", original_line)
  ELSE
    LET indentation == _get_indentation(original_line)
        fixed_content == rstrip(fix_data.s)
        fixed_line == indentation \o fixed_content \o <<"\n">>
    IN IF fixed_line # original_line /\ Len(strip(fixed_content)) > 0
       THEN Outcome("fixed", fixed_line)
       ELSE Outcome("no_change", original_line)

\* ------------------------------------------------------------- raw reports
FieldChars == {"0", "1", "-", "x"}
Digits == {"0", "1"}
DigitValue(c) == IF c = "1" THEN 1 ELSE 0

\* str.isdigit()
isdigit(text) == text # <<>> /\ \A i \in 1..Len(text) : text[i] \in Digits

RECURSIVE DecimalValue(_)
DecimalValue(text) ==
  IF text = <<>> THEN 0
  ELSE 10 * DecimalValue(SubSeq(text, 1, Len(text) - 1)) + DigitValue(text[Len(text)])

\* int(text): digits with an optional sign, ValueError for anything else
IntRaises(text) ==
  ~(isdigit(text) \/ (Len(text) > 1 /\ Head(text) = "-" /\ isdigit(Tail(text))))

int(text) == IF Head(text) = "-" THEN 0 - DecimalValue(Tail(text)) ELSE DecimalValue(text)

FieldTexts == TextsUpTo(FieldChars, MaxFieldLen)

NoPath == [stem |-> "", suffix |-> ""]

\* an <error> entry of the markup report: whether it has a <location>, the
\* location's file attribute (NoPath: none or empty) and its line attribute
XmlEntry(loc, file, hasline, text) ==
  [loc |-> loc, file |-> file, hasline |-> hasline, text |-> text]

XmlEntries ==
  {XmlEntry(FALSE, NoPath, FALSE, <<>>)}
  \cup {XmlEntry(TRUE, f, FALSE, <<>>) : f \in Paths \cup {NoPath}}
  \cup {XmlEntry(TRUE, f, TRUE, t) : f \in Paths \cup {NoPath}, t \in FieldTexts}

\* a report that does not parse
NoXml == [wellformed |-> FALSE, errors |-> <<>>]

XmlReports ==
  {NoXml}
  \cup {[wellformed |-> TRUE, errors |-> es] :
          es \in UNION {[1..k -> XmlEntries] : k \in 0..MaxRecords}}

\* a row of the delimited report: its number of fields, field 0 and field 1
MinParts == 7
CsvRow(n, file, text) == [parts |-> n, file |-> file, text |-> text]
HeaderRow == CsvRow(MinParts, NoPath, <<"x">>)

CsvRows ==
  {CsvRow(n, f, t) : n \in {MinParts - 1, MinParts}, f \in Paths, t \in FieldTexts}

\* no report file
NoCsv == [exists |-> FALSE, rows |-> <<>>]

\* the report file: absent, empty, or a header row and data rows
CsvReports ==
  {NoCsv, [exists |-> TRUE, rows |-> <<>>]}
  \cup {[exists |-> TRUE, rows |-> <<HeaderRow>> \o rs] :
          rs \in UNION {[1..k -> CsvRows] : k \in 0..MaxRecords}}

Parsed(raised, vulns) == [raised |-> raised, vulns |-> vulns]

\* the loop of _run_cppcheck (lines 51-63); the id of a finding is its place
\* in the list of all findings, base being the number of findings before it
RECURSIVE CppcheckLoop(_, _, _)
CppcheckLoop(errors, vulns, base) ==
  IF errors = <<>> THEN Parsed(FALSE, vulns)
  ELSE
    LET error == Head(errors)
    IN IF ~error.loc \/ error.file = NoPath
       THEN CppcheckLoop(Tail(errors), vulns, base)
       ELSE IF error.hasline /\ IntRaises(error.text) THEN Parsed(TRUE, vulns)
       ELSE CppcheckLoop(Tail(errors),
              Append(vulns, Vulnerability(error.file,
                                          IF error.hasline THEN int(error.text) ELSE 0,
                                          base + Len(vulns) + 1)),
              base)

\* StaticAnalyzer._run_cppcheck after the tool has run
_run_cppcheck(xml, base) ==
  IF ~xml.wellformed THEN Parsed(FALSE, <<>>) ELSE CppcheckLoop(xml.errors, <<>>, base)

RECURSIVE FlawfinderLoop(_, _, _)
FlawfinderLoop(rows, vulns, base) ==
  IF rows = <<>> THEN Parsed(FALSE, vulns)
  ELSE
    LET row == Head(rows)
    IN IF row.parts >= MinParts
       THEN FlawfinderLoop(Tail(rows),
              Append(vulns, Vulnerability(row.file,
                                          IF isdigit(row.text) THEN int(row.text) ELSE 0,
                                          base + Len(vulns) + 1)),
              base)
       ELSE FlawfinderLoop(Tail(rows), vulns, base)

\* StaticAnalyzer._run_flawfinder after the tool has run
_run_flawfinder(csv, base) ==
  IF ~csv.exists THEN Parsed(FALSE, <<>>)
  ELSE FlawfinderLoop(IF csv.rows = <<>> THEN <<>> ELSE Tail(csv.rows), <<>>, base)

\* ------------------------------------------------------------- main's dict
\* files_with_issues: a dict in insertion order, as a sequence of entries
RECURSIVE KeyIndex(_, _)
KeyIndex(d, k) ==
  IF d = <<>> THEN 0
  ELSE IF d[Len(d)].file_path = k THEN Len(d) ELSE KeyIndex(SubSeq(d, 1, Len(d) - 1), k)

RECURSIVE PartitionByFile(_, _)
PartitionByFile(issues, d) ==
  IF issues = <<>> THEN d
  ELSE
    LET issue == Head(issues)
        i == KeyIndex(d, issue.file_path)
    IN IF i = 0
       THEN PartitionByFile(Tail(issues),
              Append(d, [file_path |-> issue.file_path, issues |-> <<issue>>]))
       ELSE PartitionByFile(Tail(issues),
              [d EXCEPT ![i].issues = Append(@, issue)])

\* ------------------------------------------------------------- state
VARIABLES
  pc,                 \* where main is, or the exception that ended it
  cppcheck_xml,       \* _run_cppcheck: the report being parsed
  flawfinder_csv,     \* _run_flawfinder: the report being parsed
  fs,                 \* the files on disk, by path
  all_issues,         \* main: the findings of the analyzers
  files_with_issues,  \* main: the findings by file, in encounter order
  fidx,               \* main: position in files_with_issues
  lines,              \* fix_file: the lines read
  modified_lines,     \* fix_file: the working copy
  fixed_count,        \* fix_file: accepted fixes
  grouped_vulns,      \* fix_file: the units
  gidx,               \* fix_file: position in grouped_vulns
  run,                \* which pass over the files this is
  fs0,                \* history: the files before the run
  pre,                \* history: the files when the current fix_file began
  asked,              \* history: per file and unit, what the fix service replied
  patched,            \* history: the lines fix_file accepted a fix for
  io                  \* history: the copies and writes made

vars == <<pc, cppcheck_xml, flawfinder_csv, fs, all_issues, files_with_issues, fidx, lines, modified_lines,
          fixed_count, grouped_vulns, gidx, run, fs0, pre, asked, patched, io>>

reports == <<cppcheck_xml, flawfinder_csv>>

session == <<lines, modified_lines, fixed_count, grouped_vulns, gidx, pre, patched>>

file_path == files_with_issues[fidx].file_path

Start(at, files, issues) ==
  /\ pc = at
  /\ cppcheck_xml = NoXml
  /\ flawfinder_csv = NoCsv
  /\ fs = files
  /\ fs0 = files
  /\ pre = files
  /\ all_issues = issues
  /\ files_with_issues = <<>>
  /\ fidx = 1
  /\ lines = <<>>
  /\ modified_lines = <<>>
  /\ fixed_count = 0
  /\ grouped_vulns = <<>>
  /\ gidx = 1
  /\ run = 1
  /\ asked = [p \in Paths |-> <<>>]
  /\ patched = <<>>
  /\ io = <<>>

FilesOver(texts) == {File(t) : t \in texts} \cup {NoFile}

\* a checked folder of small files, before the analyzers run
Init ==
  \E tree \in [Paths -> FilesOver(TextsUpTo(FileChars, MaxTreeLen))] :
    Start("cppcheck", [p \in AllPaths |-> IF p \in Paths THEN tree[p] ELSE NoFile], <<>>)

\* one file and its findings, after the analyzers have run
InitFile ==
  \E f \in FilesOver(TextsUpTo(FileChars, MaxFileLen)), k \in 0..MaxIssues :
  \E issues \in IssueListsOfLen({OnePath}, 0..(MaxFileLen + 1), k) :
    Start("partition", [p \in AllPaths |-> IF p = OnePath THEN f ELSE NoFile], issues)

\* ------------------------------------------------------------- actions
\* run_all, first half: the markup report is parsed
RunCppcheck ==
  /\ pc = "cppcheck"
  /\ \E xml \in XmlReports :
       LET r == _run_cppcheck(xml, Len(all_issues))
       IN /\ cppcheck_xml' = xml
          /\ all_issues' = all_issues \o r.vulns
          /\ pc' = IF r.raised THEN "ValueError" ELSE "flawfinder"
  /\ UNCHANGED flawfinder_csv
  /\ UNCHANGED <<fs, files_with_issues, fidx, session, run, fs0, asked, io>>

\* run_all, second half: the delimited report is parsed
RunFlawfinder ==
  /\ pc = "flawfinder"
  /\ \E csv \in CsvReports :
       LET r == _run_flawfinder(csv, Len(all_issues))
       IN /\ flawfinder_csv' = csv
          /\ all_issues' = all_issues \o r.vulns
          /\ pc' = IF r.raised THEN "ValueError" ELSE "partition"
  /\ cppcheck_xml' = NoXml
  /\ UNCHANGED <<fs, files_with_issues, fidx, session, run, fs0, asked, io>>

\* main, lines 263-271
Partition ==
  /\ pc = "partition"
  /\ IF all_issues = <<>>
     THEN pc' = "done" /\ UNCHANGED files_with_issues
     ELSE pc' = "files" /\ files_with_issues' = PartitionByFile(all_issues, <<>>)
  /\ fidx' = 1
  /\ cppcheck_xml' = NoXml
  /\ flawfinder_csv' = NoCsv
  /\ UNCHANGED <<fs, all_issues, session, run, fs0, asked, io>>

\* main, lines 277-283, and fix_file up to its loop (lines 96-106)
ProcessFile ==
  /\ pc = "files"
  /\ fidx <= Len(files_with_issues)
  /\ IF ~fs[file_path].exists
     THEN /\ fidx' = fidx + 1
          /\ UNCHANGED <<pc, session, asked>>
     ELSE LET groups == _group_vulnerabilities(files_with_issues[fidx].issues)
          IN /\ lines' = readlines(fs[file_path].data)
             /\ modified_lines' = lines'
             /\ grouped_vulns' = groups
             /\ fixed_count' = 0
             /\ gidx' = 1
             /\ pre' = fs
             /\ patched' = <<>>
             /\ asked' = IF run = 1
                         THEN [asked EXCEPT ![file_path] = [i \in 1..Len(groups) |-> Unasked]]
                         ELSE asked
             /\ pc' = "units"
             /\ UNCHANGED fidx
  /\ UNCHANGED <<reports, fs, all_issues, files_with_issues, run, fs0, io>>

\* fix_file, one pass of the loop over the units (lines 108-143)
FixUnit ==
  /\ pc = "units"
  /\ gidx <= Len(grouped_vulns)
  /\ LET vuln_group == grouped_vulns[gidx]
         primary_vuln == vuln_group[1]
         line_idx == primary_vuln.line - 1
     IN IF vuln_group = <<>> \/ ~(0 <= line_idx /\ line_idx < Len(modified_lines))
        THEN /\ gidx' = gidx + 1
             /\ UNCHANGED <<pc, modified_lines, fixed_count, asked, patched>>
        ELSE \E reply \in (IF asked[file_path][gidx] = Unasked
                           THEN Replies ELSE {asked[file_path][gidx]}) :
               LET original_line == modified_lines[line_idx + 1]
                   out == ApplyFix(original_line, _query_llm_for_fix(reply))
               IN /\ asked' = [asked EXCEPT ![file_path][gidx] = reply]
                  /\ IF out.kind \in Exceptions
                     THEN /\ pc' = out.kind
                          /\ UNCHANGED <<gidx, modified_lines, fixed_count, patched>>
                     ELSE /\ gidx' = gidx + 1
                          /\ pc' = pc
                          /\ IF out.kind = "fixed"
                             THEN /\ modified_lines' =
                                       [modified_lines EXCEPT ![line_idx + 1] = out.line]
                                  /\ fixed_count' = fixed_count + 1
                                  /\ patched' = Append(patched, primary_vuln.line)
                             ELSE UNCHANGED <<modified_lines, fixed_count, patched>>
  /\ UNCHANGED <<reports, fs, all_issues, files_with_issues, fidx, lines,
                 grouped_vulns, run, fs0, pre, io>>

\* the test of line 145 with >= for >
HasFixesOrNone(count) == count >= 0

\* line 145: whether fix_file backs up and writes
HasFixes(count) == count > 0

IoCopy(src, dst) == [op |-> "copy", src |-> src, dst |-> dst]
IoWrite(dst) == [op |-> "write", src |-> dst, dst |-> dst]

\* fix_file after the loop (lines 145-155), and main's step to the next file
FixFileEnd ==
  /\ pc = "units"
  /\ gidx > Len(grouped_vulns)
  /\ IF HasFixes(fixed_count)
     THEN IF backup_path(file_path) = file_path
          THEN pc' = "SameFileError" /\ UNCHANGED <<fs, io, fidx>>
          ELSE /\ fs' = [fs EXCEPT ![backup_path(file_path)] = fs[file_path],
                                   ![file_path] = File(writelines(modified_lines))]
               /\ io' = io \o <<IoCopy(file_path, backup_path(file_path)),
                                IoWrite(file_path)>>
               /\ pc' = "files"
               /\ fidx' = fidx + 1
     ELSE /\ pc' = "files"
          /\ fidx' = fidx + 1
          /\ UNCHANGED <<fs, io>>
  /\ UNCHANGED <<reports, all_issues, files_with_issues, session, run, fs0, asked>>

\* main, after the loop over the files
Finish ==
  /\ pc = "files"
  /\ fidx > Len(files_with_issues)
  /\ pc' = "done"
  /\ UNCHANGED <<reports, fs, all_issues, files_with_issues, fidx, session, run, fs0,
                 asked, io>>

\* the loop over the files (lines 277-283) a second time, same findings
Rerun ==
  /\ pc = "done"
  /\ run = 1
  /\ files_with_issues # <<>>
  /\ run' = 2
  /\ pc' = "files"
  /\ fidx' = 1
  /\ UNCHANGED <<reports, fs, all_issues, files_with_issues, session, fs0, asked, io>>

Pipeline == Partition \/ ProcessFile \/ FixUnit \/ FixFileEnd \/ Finish

Next == RunCppcheck \/ RunFlawfinder \/ Pipeline

Spec == Init /\ [][Next]_vars

NextFile == Pipeline

SpecFile == InitFile /\ [][NextFile]_vars

\* one empty file and a longer list of findings, some at lines far apart
GroupLines == (0..MaxGroupLine) \cup {10, 12, 15, 30}

InitGroup ==
  \E k \in 0..MaxGroupLen :
  \E issues \in IssueListsOfLen({OnePath}, GroupLines, k) :
    Start("partition",
          [p \in AllPaths |-> IF p = OnePath THEN File(<<>>) ELSE NoFile], issues)

SpecGroup == InitGroup /\ [][NextFile]_vars

NextTwice == Pipeline \/ Rerun

SpecTwice == InitFile /\ [][NextTwice]_vars

\* ------------------------------------------------------------- properties
\* the file fix_file last returned for, and whether it has returned
last_path == files_with_issues[fidx - 1].file_path

Returned ==
  /\ pc \in {"files", "done"}
  /\ fidx > 1
  /\ fidx - 1 <= Len(files_with_issues)
  /\ pre[last_path].exists

LinesOf(vs) == [i \in 1..Len(vs) |-> vs[i].line]

RECURSIVE Flat(_)
Flat(groups) == IF groups = <<>> THEN <<>> ELSE Head(groups) \o Flat(Tail(groups))

Range(s) == {s[i] : i \in 1..Len(s)}

\* a line without its terminator, and the whitespace it begins with
Content(line) ==
  IF line # <<>> /\ line[Len(line)] = "\n" THEN SubSeq(line, 1, Len(line) - 1) ELSE line

LeadingWhitespace(line) ==
  SubSeq(Content(line), 1, Len(Content(line)) - Len(lstrip(Content(line))))

OnlyWhitespace(s) == \A i \in 1..Len(s) : s[i] \in Whitespace

\* the reply carries a fixed_line string
UsableFix(reply) ==
  reply.kind = "ok" /\ reply.value.t = "dict" /\ reply.value.hasfl /\ reply.value.flstr

\* the units of the current file that the loop has passed and asked a fix for
AskedUnits ==
  {i \in 1..(gidx - 1) :
     i <= Len(grouped_vulns) /\ i <= Len(asked[file_path])
     /\ asked[file_path][i] # Unasked}

TargetLine(i) == grouped_vulns[i][1].line

\* C1: when fix_file accepted exactly one fix, the backup holds the pre-run
\* content of the file, and the file differs from its pre-run content in the
\* primary finding's line and in no other line.
BackupCorrectness ==
  (Returned /\ fixed_count = 1) =>
    /\ fs[backup_path(last_path)] = pre[last_path]
    /\ LET before == readlines(pre[last_path].data)
           after == readlines(fs[last_path].data)
       IN /\ Len(after) = Len(before)
          /\ \A j \in 1..Len(before) : (j = patched[1]) <=> (after[j] # before[j])

\* C2: a second pass over the same file, the fix service replying for each unit
\* what it replied in the first pass, accepts nothing and leaves the file as
\* the first pass left it.
Idempotence ==
  (run = 2 /\ Returned) => (fixed_count = 0 /\ fs = pre)

\* C3: a proposal that is only whitespace, or that with the original
\* indentation re-attached is the original line, leaves the working copy's
\* line as it was and is not counted.
Insignificant(line, s) ==
  OnlyWhitespace(s) \/ LeadingWhitespace(line) \o s = Content(line)

SignificantChangeFilter ==
  pc = "units" =>
    \A i \in AskedUnits :
      (UsableFix(asked[file_path][i])
       /\ Insignificant(lines[TargetLine(i)], asked[file_path][i].value.s))
      => /\ modified_lines[TargetLine(i)] = lines[TargetLine(i)]
         /\ TargetLine(i) \notin Range(patched)

\* C4: no finding with line 0 is a member of a unit, and no fix is accepted
\* for line 0.
UnlocatedExcluded ==
  pc = "units" =>
    /\ \A u \in 1..Len(grouped_vulns) :
         \A i \in 1..Len(grouped_vulns[u]) : grouped_vulns[u][i].line # 0
    /\ 0 \notin Range(patched)

\* C5: when the fix service gave None for every unit of the file, fix_file
\* leaves every file as it was, backup included, and copies and writes nothing.
AllNone ==
  \A i \in 1..Len(asked[last_path]) :
    asked[last_path][i] = Unasked
    \/ _query_llm_for_fix(asked[last_path][i]) = None

NoOpPreservation ==
  (Returned /\ AllNone) => (fs = pre /\ fs = fs0 /\ io = <<>>)

NoOpPreservationWitness ==
  /\ Returned
  /\ AllNone
  /\ \E i \in 1..Len(asked[last_path]) : asked[last_path][i].kind \in ServiceFailures
  /\ fs[last_path] = fs0[last_path]

\* C6: the units are the stably line-sorted findings cut into maximal runs:
\* every finding is in exactly one unit, the units in order are sorted by line
\* with ties in input order, neighbours in a unit are at most 3 lines apart, a
\* unit begins more than 3 lines after the last member of the unit before it,
\* and lines 10, 12, 15, 30 give the units [10, 12, 15] and [30].
GroupingIsMaximalRuns ==
  pc = "units" =>
    LET input == files_with_issues[fidx].issues
        flat == Flat(grouped_vulns)
        units == [u \in 1..Len(grouped_vulns) |-> LinesOf(grouped_vulns[u])]
    IN /\ Len(flat) = Len(input)
       /\ Range(flat) = Range(input)
       /\ \A i \in 1..(Len(flat) - 1) :
            \/ flat[i].line < flat[i + 1].line
            \/ flat[i].line = flat[i + 1].line /\ flat[i].id < flat[i + 1].id
       /\ \A u \in 1..Len(units) :
            /\ units[u] # <<>>
            /\ \A i \in 1..(Len(units[u]) - 1) : units[u][i + 1] - units[u][i] <= 3
       /\ \A u \in 1..(Len(units) - 1) : units[u + 1][1] - units[u][Len(units[u])] > 3
       /\ LinesOf(input) = <<10, 12, 15, 30>> => units = << <<10, 12, 15>>, <<30>> >>

GroupingWitness ==
  /\ pc = "units"
  /\ LinesOf(files_with_issues[fidx].issues) = <<10, 12, 15, 30>>
  /\ Len(grouped_vulns) = 2
  /\ LinesOf(grouped_vulns[1]) = <<10, 12, 15>>

\* C7: at the end of the run every file that was written has a backup holding
\* its pre-run content, and no two files were backed up to the same path.
PerFileBackups ==
  /\ pc = "done" =>
       \A p \in Paths :
         IoWrite(p) \in Range(io) => fs[backup_path(p)] = fs0[p]
  /\ \A i \in 1..Len(io) : \A j \in 1..Len(io) :
       (io[i].op = "copy" /\ io[j].op = "copy" /\ io[i].src # io[j].src)
       => io[i].dst # io[j].dst

\* C8: a reply without a usable fixed_line string leaves the unit's line as it
\* was, no reply ends the run with an exception, and a run that ends has gone
\* through every file that exists.
FixServiceIsolation ==
  /\ pc \notin {"TypeError", "AttributeError"}
  /\ pc = "units" =>
       \A i \in AskedUnits :
         ~UsableFix(asked[file_path][i])
         => modified_lines[TargetLine(i)] = lines[TargetLine(i)]
  /\ pc = "done" =>
       \A k \in 1..Len(files_with_issues) :
         fs0[files_with_issues[k].file_path].exists
         => asked[files_with_issues[k].file_path] # <<>>

\* C9: no report makes the normalizers raise, a report that does not parse
\* gives no findings, and a kept record whose line field is missing or not a
\* number gives a finding with line 0, for both formats.
KeptErrors(xml) == SelectSeq(xml.errors, LAMBDA e : e.loc /\ e.file # NoPath)

KeptRows(csv) ==
  SelectSeq(IF csv.rows = <<>> THEN <<>> ELSE Tail(csv.rows),
            LAMBDA r : r.parts >= MinParts)

NormalizerTolerance ==
  /\ pc # "ValueError"
  /\ pc = "flawfinder" =>
       LET kept == KeptErrors(cppcheck_xml)
       IN /\ Len(all_issues) = Len(kept)
          /\ \A k \in 1..Len(kept) :
               (~kept[k].hasline \/ IntRaises(kept[k].text)) => all_issues[k].line = 0
  /\ pc = "partition" =>
       LET kept == KeptRows(flawfinder_csv)
           base == Len(all_issues) - Len(kept)
       IN /\ base >= 0
          /\ \A k \in 1..Len(kept) :
               IntRaises(kept[k].text) => all_issues[base + k].line = 0

\* C10: every element of the working copy is one line, so the file fix_file
\* leaves has as many lines as the file it read.
LineCountPreserved ==
  /\ pc = "units" =>
       /\ Len(modified_lines) = Len(lines)
       /\ \A i \in 1..Len(modified_lines) : Len(readlines(modified_lines[i])) = 1
  /\ Returned =>
       Len(readlines(fs[last_path].data)) = Len(readlines(pre[last_path].data))

====
